---- MODULE Spec2Model ----
(***************************************************************************)
(* A model of the two-pass AST mutation tester of src/main.py.             *)
(*                                                                         *)
(* Part 1 models the syntax trees, the site collector, the single-site     *)
(* applier and generate_mutants_from_source.  Part 2 models the campaign   *)
(* (main, mutate_file_and_test, copy_project_to, run_pytest_in_cwd) over   *)
(* a small file system.                                                    *)
(***************************************************************************)
EXTENDS Integers, Sequences, FiniteSets, TLC

(***************************************************************************)
(* Bounds of the model.                                                    *)
(***************************************************************************)
\* longest comparison chain (number of operators) among the generated sources
MaxChain == 2
\* longest left-nested arithmetic spine (number of operators), e.g. a + b + c
MaxSpine == 2

(***************************************************************************)
(* Part 1a.  Source texts and syntax trees.                                *)
(*                                                                         *)
(* A source text is given by its shape: the statements of the file, one    *)
(* per line, each expression with its parentheses.  A shape carries no     *)
(* positions; Parse assigns them as ast.parse does (lineno = the line,     *)
(* col_offset = the column of the node's first token, the node's own       *)
(* enclosing parentheses excluded).                                        *)
(*                                                                         *)
(* Every node, parsed or not, is a record with the same fields:            *)
(*   type   the ast class name                                             *)
(*   ops    the operator class names (one for BinOp, n for Compare)        *)
(*   value  the identifier of a Name, "True"/"False" of a Constant         *)
(*   kids   the child nodes in field order (left before right)             *)
(* a shape has  paren ; a parsed node has  lineno, col_offset .             *)
(***************************************************************************)
ArithOps == {"Add", "Sub", "Mult"}
CmpOps == {"Eq", "NotEq", "Lt", "Gt", "LtE"}

Name(id) ==
    [type |-> "Name", ops |-> <<>>, value |-> id, paren |-> FALSE, kids |-> <<>>]
Const(v) ==
    [type |-> "Constant", ops |-> <<>>, value |-> v, paren |-> FALSE, kids |-> <<>>]
BinOp(l, op, r, p) ==
    [type |-> "BinOp", ops |-> <<op>>, value |-> "", paren |-> p, kids |-> <<l, r>>]
Compare(operands, cops, p) ==
    [type |-> "Compare", ops |-> cops, value |-> "", paren |-> p, kids |-> operands]
ExprStmt(e) ==
    [type |-> "Expr", ops |-> <<>>, value |-> "", paren |-> FALSE, kids |-> <<e>>]
Assign(id, e) ==
    [type |-> "Assign", ops |-> <<>>, value |-> "", paren |-> FALSE, kids |-> <<Name(id), e>>]
Return(e) ==
    [type |-> "Return", ops |-> <<>>, value |-> "", paren |-> FALSE, kids |-> <<e>>]
If(test, e) ==
    [type |-> "If", ops |-> <<>>, value |-> "", paren |-> FALSE, kids |-> <<test, Return(e)>>]
Pass ==
    [type |-> "Pass", ops |-> <<>>, value |-> "", paren |-> FALSE, kids |-> <<>>]

\* A source file: valid = FALSE stands for a text that is not valid Python.
Source(stmts) == [valid |-> TRUE, body |-> stmts]
InvalidSource == [valid |-> FALSE, body |-> <<>>]

\* Binding strength of the expression forms (Python's grammar).
Prec(e) ==
    IF e.type = "Compare" THEN 1
    ELSE IF e.type = "BinOp" THEN (IF e.ops[1] = "Mult" THEN 3 ELSE 2)
    ELSE 4

\* Width in characters of an operator token and of " op ".
OpWidth(op) == IF op \in {"Eq", "NotEq", "LtE"} THEN 2 ELSE 1

RECURSIVE Width(_)
RECURSIVE WidthFrom(_, _)
\* Width in characters of the text of an expression shape.
Width(e) ==
    (IF e.paren THEN 2 ELSE 0) +
    (IF e.type = "Name" THEN 1
     ELSE IF e.type = "Constant" THEN (IF e.value = "True" THEN 4 ELSE 5)
     ELSE Width(e.kids[1]) + WidthFrom(e, 1))
\* Width of the operators and operands of e after operand i.
WidthFrom(e, i) ==
    IF i > Len(e.ops) THEN 0
    ELSE OpWidth(e.ops[i]) + 2 + Width(e.kids[i + 1]) + WidthFrom(e, i + 1)

RECURSIVE ParseExpr(_, _, _)
RECURSIVE ParseOperands(_, _, _, _)
\* The node ast.parse builds for the expression shape e whose text starts
\* (parentheses included) at column col of line.
ParseExpr(e, line, col) ==
    LET start == IF e.paren THEN col + 1 ELSE col
    IN [type |-> e.type, ops |-> e.ops, value |-> e.value,
        lineno |-> line, col_offset |-> start,
        kids |-> IF e.kids = <<>> THEN <<>> ELSE ParseOperands(e, line, start, 1)]
\* The parsed operands i.. of e, operand i starting at column col.
ParseOperands(e, line, col, i) ==
    IF i > Len(e.kids) THEN <<>>
    ELSE <<ParseExpr(e.kids[i], line, col)>> \o
         (IF i > Len(e.ops) THEN <<>>
          ELSE ParseOperands(e, line, col + Width(e.kids[i]) + OpWidth(e.ops[i]) + 2, i + 1))

\* The statement node of shape s on the given line (statements start at column 0).
ParseStmt(s, line) ==
    LET at(c, ks) == [type |-> s.type, ops |-> <<>>, value |-> "",
                      lineno |-> line, col_offset |-> c, kids |-> ks]
    IN CASE s.type = "Expr" -> at(0, <<ParseExpr(s.kids[1], line, 0)>>)
         [] s.type = "Assign" ->
              \* "x = e": the target at column 0, the value after "x = "
              at(0, <<ParseExpr(s.kids[1], line, 0), ParseExpr(s.kids[2], line, 4)>>)
         [] s.type = "If" ->
              \* "if t: return e": the test after "if ", the return after ": "
              LET t == s.kids[1]
                  rcol == 3 + Width(t) + 2
              IN at(0, <<ParseExpr(t, line, 3),
                         [type |-> "Return", ops |-> <<>>, value |-> "",
                          lineno |-> line, col_offset |-> rcol,
                          kids |-> <<ParseExpr(s.kids[2].kids[1], line, rcol + 7)>>]>>)
         [] OTHER -> at(0, <<>>)

\* ast.parse of a valid source: the Module node (which has no position; 0 here).
Parse(src) ==
    [type |-> "Module", ops |-> <<>>, value |-> "", lineno |-> 0, col_offset |-> 0,
     kids |-> [k \in 1..Len(src.body) |-> ParseStmt(src.body[k], k)]]

(***************************************************************************)
(* Part 1b.  The operator table and the site collector.                    *)
(***************************************************************************)
\* The key/value pairs of the dict display, in the order written.
OpMutationPairs ==
    << <<"Eq", "NotEq">>, <<"NotEq", "Eq">>, <<"Lt", "Gt">>, <<"Gt", "Lt">>,
       <<"Add", "Sub">>, <<"Sub", "Add">>, <<"Add", "Mult">>, <<"Mult", "Add">> >>

\* A dict display keeps, for a key written twice, the value written last.
DictOf(pairs) ==
    [k \in {pairs[i][1] : i \in 1..Len(pairs)} |->
        LET last == CHOOSE i \in 1..Len(pairs) :
                        /\ pairs[i][1] = k
                        /\ \A j \in 1..Len(pairs) : pairs[j][1] = k => j <= i
        IN pairs[last][2]]

OP_MUTATION_MAP == DictOf(OpMutationPairs)

CONST_BOOL_MUTATIONS == [v \in {"True", "False"} |-> IF v = "True" THEN "False" ELSE "True"]

\* A site dict.  Only Compare sites have the key op_index; it is -1 here otherwise.
Site(k, node, idx, o, t) ==
    [kind |-> k, lineno |-> node.lineno, col_offset |-> node.col_offset,
     op_index |-> idx, orig |-> o, target |-> t]

\* visit_Compare's sites if it looked at the first operator of a chain only.
CompareSitesFirstOnly(node, idx) ==
    IF idx # 0 \/ Len(node.ops) = 0 THEN <<>>
    ELSE IF node.ops[1] \in {"Eq", "NotEq", "Lt", "Gt"}
         THEN <<[kind |-> "Compare", lineno |-> node.lineno, col_offset |-> node.col_offset,
                 op_index |-> 0, orig |-> node.ops[1],
                 target |-> CASE node.ops[1] = "Eq" -> "NotEq" [] node.ops[1] = "NotEq" -> "Eq"
                              [] node.ops[1] = "Lt" -> "Gt" [] OTHER -> "Lt"]>>
         ELSE <<>>

RECURSIVE CompareSites(_, _)
\* MutationSiteCollector.visit_Compare's loop, from the operator at 0-based index idx.
CompareSites(node, idx) ==
    IF idx >= Len(node.ops) THEN <<>>
    ELSE LET op_name == node.ops[idx + 1]
         IN (IF op_name \in DOMAIN OP_MUTATION_MAP
             THEN <<Site("Compare", node, idx, op_name, OP_MUTATION_MAP[op_name])>>
             ELSE <<>>) \o CompareSites(node, idx + 1)

\* MutationSiteCollector.visit_BinOp's own site, if any.
BinOpSites(node) ==
    LET op_name == node.ops[1]
    IN IF op_name \in DOMAIN OP_MUTATION_MAP
       THEN <<Site("BinOp", node, -1, op_name, OP_MUTATION_MAP[op_name])>>
       ELSE <<>>

\* MutationSiteCollector.visit_Constant: names are no constants, and every
\* Constant of the model is a bool.
ConstantSites(node) ==
    IF node.value \in DOMAIN CONST_BOOL_MUTATIONS
    THEN <<Site("ConstantBool", node, -1, node.value, CONST_BOOL_MUTATIONS[node.value])>>
    ELSE <<>>

RECURSIVE CollectSites(_)
RECURSIVE CollectKids(_, _)
\* collector.visit(node): the sites appended while visiting node, in order.
CollectSites(node) ==
    CASE node.type = "Compare" -> CompareSites(node, 0) \o CollectKids(node, 1)
      [] node.type = "BinOp" -> BinOpSites(node) \o CollectKids(node, 1)
      [] node.type = "Constant" -> ConstantSites(node)
      [] OTHER -> CollectKids(node, 1)
\* NodeVisitor.generic_visit: the children from the i-th on, in field order.
CollectKids(node, i) ==
    IF i > Len(node.kids) THEN <<>>
    ELSE CollectSites(node.kids[i]) \o CollectKids(node, i + 1)

(***************************************************************************)
(* Part 1c.  The single-site applier.  A visit takes the node and the      *)
(* applier's flag and gives the node put in its place and the flag after.  *)
(***************************************************************************)
matches_location(site, node) ==
    node.lineno = site.lineno /\ node.col_offset = site.col_offset

RECURSIVE Visit(_, _, _)
RECURSIVE VisitKids(_, _, _, _)
\* NodeTransformer.generic_visit: visit the children in order, each replaced
\* by what its visit returns.
generic_visit(site, node, applied) ==
    LET r == VisitKids(site, node.kids, applied, 1)
    IN [node |-> [node EXCEPT !.kids = r.kids], applied |-> r.applied]

VisitKids(site, kids, applied, i) ==
    IF i > Len(kids) THEN [kids |-> <<>>, applied |-> applied]
    ELSE LET first == Visit(site, kids[i], applied)
             rest == VisitKids(site, kids, first.applied, i + 1)
         IN [kids |-> <<first.node>> \o rest.kids, applied |-> rest.applied]

visit_Compare(site, node, applied) ==
    IF applied \/ site.kind # "Compare" THEN generic_visit(site, node, applied)
    ELSE IF /\ matches_location(site, node)
            /\ 0 <= site.op_index /\ site.op_index < Len(node.ops)
            /\ node.ops[site.op_index + 1] = site.orig
         THEN [node |-> [node EXCEPT !.ops[site.op_index + 1] = site.target],
               applied |-> TRUE]
         ELSE generic_visit(site, node, applied)

visit_BinOp(site, node, applied) ==
    IF applied \/ site.kind # "BinOp" THEN generic_visit(site, node, applied)
    ELSE IF matches_location(site, node) /\ node.ops[1] = site.orig
         THEN [node |-> [node EXCEPT !.ops[1] = site.target],
               applied |-> TRUE]
         ELSE generic_visit(site, node, applied)

visit_Constant(site, node, applied) ==
    IF applied \/ site.kind # "ConstantBool" THEN [node |-> node, applied |-> applied]
    ELSE IF /\ matches_location(site, node)
            /\ node.value \in {"True", "False"} /\ node.value = site.orig
         THEN \* the new constant is returned; self.applied is not assigned
              [node |-> [node EXCEPT !.value = site.target], applied |-> applied]
         ELSE [node |-> node, applied |-> applied]

\* NodeTransformer.visit: dispatch on the class of the node.
Visit(site, node, applied) ==
    CASE node.type = "Compare" -> visit_Compare(site, node, applied)
      [] node.type = "BinOp" -> visit_BinOp(site, node, applied)
      [] node.type = "Constant" -> visit_Constant(site, node, applied)
      [] OTHER -> generic_visit(site, node, applied)

\* SingleSiteApplier(site).visit(tree_copy): the mutated tree and applier.applied.
ApplySite(tree_copy, site) == Visit(site, tree_copy, FALSE)

(***************************************************************************)
(* Part 1d.  Rendering (ast.unparse) and generate_mutants_from_source.     *)
(* A rendered text is its sequence of tokens; line breaks and indentation  *)
(* are left out.                                                           *)
(***************************************************************************)
OpToken(op) ==
    CASE op = "Add" -> "+" [] op = "Sub" -> "-" [] op = "Mult" -> "*"
      [] op = "Eq" -> "==" [] op = "NotEq" -> "!=" [] op = "Lt" -> "<"
      [] op = "Gt" -> ">" [] op = "LtE" -> "<="

RECURSIVE UnparseExpr(_, _)
RECURSIVE UnparseOperands(_, _)
\* The tokens of an expression in a context that needs binding strength min:
\* parentheses are written exactly where the tree needs them.
UnparseExpr(node, min) ==
    LET inner == CASE node.type \in {"Name", "Constant"} -> <<node.value>>
                   [] node.type = "BinOp" ->
                        UnparseExpr(node.kids[1], Prec(node)) \o <<OpToken(node.ops[1])>>
                        \o UnparseExpr(node.kids[2], Prec(node) + 1)
                   [] OTHER ->
                        UnparseExpr(node.kids[1], Prec(node) + 1) \o UnparseOperands(node, 1)
    IN IF Prec(node) < min THEN <<"(">> \o inner \o <<")">> ELSE inner
\* The operators and comparators of a Compare from operator i on.
UnparseOperands(node, i) ==
    IF i > Len(node.ops) THEN <<>>
    ELSE <<OpToken(node.ops[i])>> \o UnparseExpr(node.kids[i + 1], Prec(node) + 1)
         \o UnparseOperands(node, i + 1)

UnparseStmt(s) ==
    CASE s.type = "Expr" -> UnparseExpr(s.kids[1], 0)
      [] s.type = "Assign" -> <<s.kids[1].value, "=">> \o UnparseExpr(s.kids[2], 0)
      [] s.type = "If" ->
           <<"if">> \o UnparseExpr(s.kids[1], 0) \o <<":", "return">>
           \o UnparseExpr(s.kids[2].kids[1], 0)
      [] OTHER -> <<"pass">>

RECURSIVE UnparseBody(_, _)
UnparseBody(module, k) ==
    IF k > Len(module.kids) THEN <<>>
    ELSE UnparseStmt(module.kids[k]) \o (IF k < Len(module.kids) THEN <<";">> ELSE <<>>)
         \o UnparseBody(module, k + 1)

\* ast.unparse(tree): the statements, separated here by ";".
Unparse(module) == UnparseBody(module, 1)

\* The description string of a mutant, by its parts.
Desc(site) ==
    [kind |-> site.kind, lineno |-> site.lineno, col_offset |-> site.col_offset,
     orig |-> site.orig, target |-> site.target]

\* The tree root refers to after the applier has turned its copy into mutated,
\* were the applier handed root itself instead of a copy.
RootAfterApplyShared(root, mutated) == mutated

\* The tree root refers to after the applier has turned tree_copy into
\* mutated: tree_copy = copy.deepcopy(root) shares nothing with root.
RootAfterApply(root, mutated) == root

\* The same iteration when the check of applier.applied is left out.
IterationAlwaysEmits(root, site) ==
    LET r == ApplySite(root, site)
    IN [tree |-> r.node, applied |-> r.applied,
        emitted |-> <<[desc |-> Desc(site), code |-> Unparse(r.node)]>>]

\* One iteration of the loop of generate_mutants_from_source on site: the
\* applier's result and the mutants appended (none when applied is false).
Iteration(root, site) ==
    LET r == ApplySite(root, site)
    IN [tree |-> r.node, applied |-> r.applied,
        emitted |-> IF r.applied
                    THEN <<[desc |-> Desc(site), code |-> Unparse(r.node)]>>
                    ELSE <<>>]

RECURSIVE MutantsFrom(_, _, _)
\* The mutants appended by the iterations i.. of the loop.
MutantsFrom(root, sites, i) ==
    IF i > Len(sites) THEN <<>>
    ELSE LET it == Iteration(root, sites[i])
         IN it.emitted \o MutantsFrom(RootAfterApply(root, it.tree), sites, i + 1)

\* generate_mutants_from_source(source_code) for a source that parses.
generate_mutants_from_source(src) ==
    LET root == Parse(src) IN MutantsFrom(root, CollectSites(root), 1)

(***************************************************************************)
(* Part 1e.  The source texts the generator is run on.                     *)
(***************************************************************************)
OperandName(i) == <<"a", "b", "c", "d", "e">>[i]

SeqsUpTo(S, n) == UNION {[1..k -> S] : k \in 1..n}

OpPrec(op) == IF op \in CmpOps THEN 1 ELSE IF op = "Mult" THEN 3 ELSE 2

RECURSIVE Spine(_, _)
\* a op1 b op2 c ...: the left-nested expression of the first n operators,
\* an inner operand in parentheses only where the grammar needs them.
Spine(aops, n) ==
    IF n = 0 THEN Name(OperandName(1))
    ELSE LET l == Spine(aops, n - 1)
         IN BinOp([l EXCEPT !.paren = (Prec(l) < OpPrec(aops[n]))], aops[n],
                  Name(OperandName(n + 1)), FALSE)

\* a op1 b op2 c ... as one comparison chain.
Chain(cops) == Compare([k \in 1..(Len(cops) + 1) |-> Name(OperandName(k))], cops, FALSE)

SpineExprs == {Spine(aops, Len(aops)) : aops \in SeqsUpTo(ArithOps, MaxSpine)}

\* (a op1 b) op2 c, the parentheses written whether needed or not.
LeftParenExprs ==
    {BinOp(BinOp(Name("a"), o1, Name("b"), TRUE), o2, Name("c"), FALSE) :
        o1 \in ArithOps, o2 \in ArithOps}

\* a op1 (b op2 c) and a op1 b op2 c where that parses to the same tree.
RightNestedExprs ==
    {BinOp(Name("a"), o1, BinOp(Name("b"), o2, Name("c"), OpPrec(o2) <= OpPrec(o1)), FALSE) :
        o1 \in ArithOps, o2 \in ArithOps}

ChainExprs == {Chain(cops) : cops \in SeqsUpTo(CmpOps, MaxChain)}

\* (a op1 b) op2 c and a op1 (b op2 c) for comparisons, and mixed forms.
MixedExprs ==
    {Compare(<<Compare(<<Name("a"), Name("b")>>, <<o1>>, TRUE), Name("c")>>, <<o2>>, FALSE) :
        o1 \in {"Eq", "Lt"}, o2 \in {"Eq", "Lt"}}
    \cup {Compare(<<Name("a"), Compare(<<Name("b"), Name("c")>>, <<o1>>, TRUE)>>, <<o2>>, FALSE) :
        o1 \in {"Eq", "Lt"}, o2 \in {"Eq", "Lt"}}
    \cup {Compare(<<Spine(<<"Add">>, 1), Name("c")>>, <<"Lt">>, FALSE),
          BinOp(Name("a"), "Add", Const("True"), FALSE),
          BinOp(Const("True"), "Sub", Const("False"), FALSE),
          Compare(<<Const("True"), Const("False")>>, <<"Eq">>, FALSE),
          Const("True"), Const("False"), Name("a")}

Expressions == SpineExprs \cup LeftParenExprs \cup RightNestedExprs \cup ChainExprs \cup MixedExprs

\* x = a + b
ScenarioB == Source(<<Assign("x", Spine(<<"Add">>, 1))>>)
\* if a == b: return True
ScenarioA == Source(<<If(Chain(<<"Eq">>), Const("True"))>>)

Sources ==
    {Source(<<ExprStmt(e)>>) : e \in Expressions}
    \cup {Source(<<Assign("x", e)>>) :
            e \in {Spine(<<o>>, 1) : o \in ArithOps} \cup {Const("True"), Const("False")}}
    \cup {ScenarioA, ScenarioB,
          Source(<<Pass>>),
          Source(<<ExprStmt(Spine(<<"Add">>, 1)), ExprStmt(Spine(<<"Add">>, 1))>>),
          Source(<<Assign("x", Const("True")), If(Chain(<<"Lt">>), Const("False"))>>),
          InvalidSource}

(***************************************************************************)
(* Part 2a.  Paths and the file system.                                    *)
(*                                                                         *)
(* A path is the sequence of its components; an absolute path starts with  *)
(* "/".  The file system maps the absolute path of every file to its       *)
(* content; a directory exists where a file lies below it, and the         *)
(* temporary directories are kept apart (they may be empty).               *)
(***************************************************************************)
IsAbs(p) == Len(p) > 0 /\ p[1] = "/"

\* os.path.join(a, b): an absolute b discards a.
Join(a, b) == IF IsAbs(b) THEN b ELSE a \o b

RECURSIVE Norm(_, _, _)
\* The path the kernel resolves p to: "." is skipped, ".." leaves a directory.
Norm(p, k, acc) ==
    IF k > Len(p) THEN acc
    ELSE IF p[k] = "." THEN Norm(p, k + 1, acc)
    ELSE IF p[k] = ".." THEN Norm(p, k + 1, IF Len(acc) > 1 THEN SubSeq(acc, 1, Len(acc) - 1) ELSE acc)
    ELSE Norm(p, k + 1, Append(acc, p[k]))

\* The absolute path that p names when the working directory is dir.
Resolve(dir, p) == Norm(Join(dir, p), 1, <<>>)

\* p lies below the directory d.
Below(d, p) == Len(d) < Len(p) /\ SubSeq(p, 1, Len(d)) = d

FilesBelow(files, d) == {p \in DOMAIN files : Below(d, p)}

\* os.listdir(d), and which of the names are files and which directories.
ListDir(files, d) == {p[Len(d) + 1] : p \in FilesBelow(files, d)}
FileNames(files, d) == {n \in ListDir(files, d) : Append(d, n) \in DOMAIN files}
DirNames(files, d) == ListDir(files, d) \ FileNames(files, d)

RECURSIVE SeqOf(_)
\* The members of a finite set in some order (the order a directory is listed in).
SeqOf(S) == IF S = {} THEN <<>> ELSE LET x == CHOOSE y \in S : TRUE IN <<x>> \o SeqOf(S \ {x})

\* f.endswith(".py") for the file names of the model.
IsPy(n) == n \in {"m.py", "n.py", "o.py"}

\* The content of a file: the source text of an original file, or the code
\* written for a mutant.
NoSource == [valid |-> TRUE, body |-> <<>>]
TextOf(src) == [kind |-> "text", source |-> src, code |-> <<>>]
CodeOf(tokens) == [kind |-> "code", source |-> NoSource, code |-> tokens]
Data == [kind |-> "data", source |-> NoSource, code |-> <<>>]

ProjectRoot == <<"/", "proj">>
TmpRoot == <<"/", "tmp">>

\* The files of the project and one file outside it, for the sources of
\* m.py and pkg/n.py.
Disk(m_src, n_src) ==
    (<<"/", "proj", "m.py">> :> TextOf(m_src))
    @@ (<<"/", "proj", "README">> :> Data)
    @@ (<<"/", "proj", "pkg", "n.py">> :> TextOf(n_src))
    @@ (<<"/", "proj", "pkg", "data.txt">> :> Data)
    @@ (<<"/", "proj", "pkg", "__pycache__", "n.pyc">> :> Data)
    @@ (<<"/", "proj", "pkg", ".git", "HEAD">> :> Data)
    @@ (<<"/", "proj", ".git", "HEAD">> :> Data)
    @@ (<<"/", "proj", "__pycache__", "m.pyc">> :> Data)
    @@ (<<"/", "proj", ".pytest_cache", "lastfailed">> :> Data)
    @@ (<<"/", "other", "o.py">> :> TextOf(ScenarioB))

\* The paths the tool may be started with.
ArgPaths ==
    { <<"m.py">>, <<"pkg">>, <<".">>, <<"/", "proj">>, <<"/", "proj", "m.py">>,
      <<"..", "other", "o.py">>, <<"nosuch">> }

\* The sources the project's files are drawn from: x = a + b ; a + b - c ;
\* if a == b: return True ; x = True ; pass ; and a text that does not parse.
CampaignSources ==
    {ScenarioB, Source(<<ExprStmt(Spine(<<"Add", "Sub">>, 2))>>), ScenarioA,
     Source(<<Assign("x", Const("True"))>>), Source(<<Pass>>), InvalidSource}

(***************************************************************************)
(* Part 2b.  collect_python_files, copy_project_to, run_pytest_in_cwd.     *)
(***************************************************************************)
RECURSIVE WalkPy(_, _, _)
RECURSIVE WalkDirs(_, _, _, _)
\* os.walk(root): the .py files of root, then those of its subdirectories,
\* each as os.path.join(root, f).
WalkPy(files, dir, root) ==
    LET d == Resolve(dir, root)
    IN SeqOf({Append(root, f) : f \in {n \in FileNames(files, d) : IsPy(n)}})
       \o WalkDirs(files, dir, root, SeqOf(DirNames(files, d)))
WalkDirs(files, dir, root, subs) ==
    IF subs = <<>> THEN <<>>
    ELSE WalkPy(files, dir, Append(root, Head(subs))) \o WalkDirs(files, dir, root, Tail(subs))

IsFile(files, dir, path) == Resolve(dir, path) \in DOMAIN files
IsDir(files, dir, path) == FilesBelow(files, Resolve(dir, path)) # {}

\* collect_python_files(path): the targets (the error line is printed by the caller here).
collect_python_files(files, dir, path) ==
    IF IsFile(files, dir, path) THEN <<path>>
    ELSE IF IsDir(files, dir, path) THEN WalkPy(files, dir, path)
    ELSE <<>>

\* The default of exclude_names, and the patterns given to shutil.copytree.
DefaultExcludeNames == {".git", "__pycache__"}
IgnorePatterns == {"__pycache__", ".pytest_cache"}

\* The files of the working directory dir that copy_project_to copies: those
\* of every listed item not excluded by name, a directory's files without
\* the ones at or below a name copytree ignores, and without the files that
\* cannot be read.
CopiedFiles(files, dir, noread) ==
    {p \in FilesBelow(files, dir) :
        /\ p[Len(dir) + 1] \notin DefaultExcludeNames
        /\ \A k \in (Len(dir) + 2)..Len(p) : p[k] \notin IgnorePatterns
        /\ p \notin noread}

\* The listed items whose copy raised (the warning lines), in listing order.
FailedItems(files, dir, noread) ==
    SeqOf({p[Len(dir) + 1] : p \in {q \in FilesBelow(files, dir) :
        /\ q[Len(dir) + 1] \notin DefaultExcludeNames
        /\ \A k \in (Len(dir) + 2)..Len(q) : q[k] \notin IgnorePatterns
        /\ q \in noread}})

\* The file system after copy_project_to(tmpdir) with working directory dir.
copy_project_to(files, dir, tmpdir, noread) ==
    LET from == CopiedFiles(files, dir, noread)
        to(p) == tmpdir \o SubSeq(p, Len(dir) + 1, Len(p))
        new == {to(p) : p \in from}
    IN [q \in DOMAIN files \cup new |->
            IF q \in new THEN files[CHOOSE p \in from : to(p) = q] ELSE files[q]]

\* How a run of the test command can end.
Outcomes == {"exit_zero", "exit_nonzero", "timeout", "launch_error"}

\* run_pytest_in_cwd when the hang of a test run counts as a pass.
run_pytest_hang_passes(outcome) == outcome \in {"exit_zero", "timeout"}

\* run_pytest_in_cwd(timeout=10): the value returned for an outcome that
\* returns (launch_error raises an OSError, which no handler catches).
run_pytest_in_cwd(outcome) == outcome = "exit_zero"

\* shutil.rmtree of a temporary directory: every file below it goes.
RmTree(files, d) == [p \in {q \in DOMAIN files : ~Below(d, q)} |-> files[p]]

\* The names tempfile gives to the directories it creates, in turn.
TmpName(n) == <<"sb1", "sb2", "sb3", "sb4", "sb5", "sb6", "sb7", "sb8">>[n]

(***************************************************************************)
(* Part 2c.  The output lines.                                             *)
(***************************************************************************)
NoDesc == [kind |-> "", lineno |-> 0, col_offset |-> 0, orig |-> "", target |-> ""]

Line(k, f, d, st, kl, tot) ==
    [line |-> k, file |-> f, desc |-> d, status |-> st, killed |-> kl, total |-> tot]

\* "=== Mutating <t> ==="
MutatingLine(f) == Line("mutating", f, NoDesc, "", 0, 0)
\* "  <mutation>: killed|survived"
VerdictLine(r) == Line("verdict", <<>>, r.mutation, IF r.killed THEN "killed" ELSE "survived", 0, 0)
\* "  No mutation sites found."
NoSitesLine == Line("no_sites", <<>>, NoDesc, "", 0, 0)
\* "=== Summary ==="
SummaryLine == Line("summary", <<>>, NoDesc, "", 0, 0)
\* "<filename>: <killed>/<total> killed"
FileLine(f, kl, tot) == Line("file", f, NoDesc, "", kl, tot)
\* "Overall: <killed>/<total> killed"
OverallLine(kl, tot) == Line("overall", <<>>, NoDesc, "", kl, tot)
\* "Warning: failed to copy ./<item>: ..."
WarningLine(item) == Line("warning", <<".", item>>, NoDesc, "", 0, 0)
\* "Error: '<path>' is neither file nor directory."
ErrorLine(path) == Line("error", path, NoDesc, "", 0, 0)
\* "No Python files found."
NoFilesLine == Line("no_files", <<>>, NoDesc, "", 0, 0)

\* The per-mutant lines of main's inner loop, last result first.
ReportLinesReversed(res) == [k \in 1..Len(res) |-> VerdictLine(res[Len(res) + 1 - k])]

\* The per-mutant lines main prints for the results of one file.
ReportLines(res) == [k \in 1..Len(res) |-> VerdictLine(res[k])]

\* The count of the summary loop if it counted every result as killed.
KilledInCountsAll(res) == Len(res)

RECURSIVE KilledIn(_)
\* sum(1 for r in results if r["killed"])
KilledIn(res) ==
    IF res = <<>> THEN 0 ELSE (IF Head(res).killed THEN 1 ELSE 0) + KilledIn(Tail(res))

RECURSIVE SummaryFrom(_, _, _, _)
\* The lines of the summary loop from entry k on, then the Overall line.
SummaryFrom(all, k, total_killed, total_mutants) ==
    IF k > Len(all) THEN <<OverallLine(total_killed, total_mutants)>>
    ELSE LET killed == KilledIn(all[k].results)
             total == Len(all[k].results)
         IN <<FileLine(all[k].file, killed, total)>>
            \o SummaryFrom(all, k + 1, total_killed + killed, total_mutants + total)

(***************************************************************************)
(* Part 3.  State.                                                         *)
(*                                                                         *)
(* generate_mutants_from_source run step by step on one source (SpecGen):  *)
(*   source_code  the text handed in                                       *)
(*   gpc          where the call is: "parse", "collect", "loop",           *)
(*                "returned", or "raised" (ast.parse raised SyntaxError)   *)
(*   root, sites, mutants   the locals of the function                     *)
(*   i            the 1-based number of the site the loop is at            *)
(*   applied_log  per finished iteration: the site, the tree the applier   *)
(*                returned and applier.applied                             *)
(*                                                                         *)
(* The campaign (Spec):                                                    *)
(*   args_path    the path on the command line                             *)
(*   fs, tmpdirs  the files, and the temporary directories that exist      *)
(*   project      the files as they were when the tool started             *)
(*   unreadable   the files whose copy fails                               *)
(*   cwd          the working directory of the process                     *)
(*   pc           where the program is                                     *)
(*   targets, t, all_results          locals of main (t is 1-based)        *)
(*   original, mutants, m, results    locals of mutate_file_and_test       *)
(*   tmpdir, saved_cwd, passed        locals of its loop body              *)
(*   exc          the exception being propagated, "none" if none           *)
(*   created      how many temporary directories were created so far       *)
(*   output       the lines printed so far                                 *)
(*   run_log      per test run so far: the target, the mutant, the outcome *)
(***************************************************************************)
VARIABLES source_code, gpc, root, sites, i, mutants, applied_log

VARIABLES args_path, fs, tmpdirs, project, unreadable, cwd, pc, targets, t,
          all_results, original, m, results, tmpdir, saved_cwd, passed, exc,
          created, output, run_log

gvars == <<source_code, gpc, root, sites, i, applied_log>>

cvars == <<args_path, fs, tmpdirs, project, unreadable, cwd, pc, targets, t,
           all_results, original, m, results, tmpdir, saved_cwd, passed, exc,
           created, output, run_log>>

vars == <<gvars, mutants, cvars>>

NoTree == [type |-> "None", ops |-> <<>>, value |-> "", lineno |-> 0, col_offset |-> 0,
           kids |-> <<>>]

\* The generator's own variables while the campaign runs.
GenIdle ==
    /\ source_code = NoSource /\ gpc = "idle" /\ root = NoTree /\ sites = <<>>
    /\ i = 1 /\ applied_log = <<>>

\* The campaign's variables while the generator is run alone.
CampaignIdle ==
    /\ args_path = <<>> /\ fs = <<>> /\ tmpdirs = {} /\ project = <<>>
    /\ unreadable = {} /\ cwd = ProjectRoot /\ pc = "idle" /\ targets = <<>>
    /\ t = 1 /\ all_results = <<>> /\ original = NoSource /\ m = 1
    /\ results = <<>> /\ tmpdir = <<>> /\ saved_cwd = <<>> /\ passed = FALSE
    /\ exc = "none" /\ created = 0 /\ output = <<>> /\ run_log = <<>>

(***************************************************************************)
(* Part 4.  generate_mutants_from_source, step by step.                    *)
(***************************************************************************)
GenInit ==
    /\ source_code \in Sources
    /\ gpc = "parse"
    /\ root = NoTree
    /\ sites = <<>>
    /\ i = 1
    /\ mutants = <<>>
    /\ applied_log = <<>>
    /\ CampaignIdle

\* line 151: root = ast.parse(source_code)
GenParse ==
    /\ gpc = "parse"
    /\ IF source_code.valid
       THEN root' = Parse(source_code) /\ gpc' = "collect"
       ELSE root' = root /\ gpc' = "raised"
    /\ UNCHANGED <<source_code, sites, i, mutants, applied_log>>
    /\ UNCHANGED cvars

\* lines 152-156: collect the sites, start with no mutants
GenCollect ==
    /\ gpc = "collect"
    /\ sites' = CollectSites(root)
    /\ i' = 1
    /\ mutants' = <<>>
    /\ gpc' = "loop"
    /\ UNCHANGED <<source_code, root, applied_log>>
    /\ UNCHANGED cvars

\* lines 157-166: one iteration of the loop
GenIterate ==
    /\ gpc = "loop"
    /\ i <= Len(sites)
    /\ LET it == Iteration(root, sites[i])
       IN /\ root' = RootAfterApply(root, it.tree)
          /\ mutants' = mutants \o it.emitted
          /\ applied_log' = Append(applied_log,
                                   [site |-> sites[i], tree |-> it.tree, applied |-> it.applied])
    /\ i' = i + 1
    /\ UNCHANGED <<source_code, sites, gpc>>
    /\ UNCHANGED cvars

\* line 167: return mutants
GenReturn ==
    /\ gpc = "loop"
    /\ i > Len(sites)
    /\ gpc' = "returned"
    /\ UNCHANGED <<source_code, root, sites, i, mutants, applied_log>>
    /\ UNCHANGED cvars

GenNext == GenParse \/ GenCollect \/ GenIterate \/ GenReturn

SpecGen == GenInit /\ [][GenNext]_vars


(***************************************************************************)
(* Part 5.  The campaign: main and mutate_file_and_test.                   *)
(***************************************************************************)
UnreadableFile == <<"/", "proj", "pkg", "data.txt">>

Init ==
    /\ GenIdle
    /\ mutants = <<>>
    /\ args_path \in ArgPaths
    /\ \E m_src \in CampaignSources, n_src \in CampaignSources : fs = Disk(m_src, n_src)
    /\ project = fs
    /\ unreadable \in {{}, {UnreadableFile}}
    /\ tmpdirs = {}
    /\ cwd = ProjectRoot
    /\ pc = "main"
    /\ targets = <<>> /\ t = 1 /\ all_results = <<>>
    /\ original = NoSource /\ m = 1 /\ results = <<>>
    /\ tmpdir = <<>> /\ saved_cwd = <<>> /\ passed = FALSE
    /\ exc = "none" /\ created = 0 /\ output = <<>> /\ run_log = <<>>

\* The sandbox the with-statement leaves behind if it never removed it.
KeepTemporaryDirectory(dirs, d) == dirs

\* Leaving "with tempfile.TemporaryDirectory() as tmpdir", by the end of the
\* block or by an exception: the directory is removed.
ExitTemporaryDirectory(dirs, d) == dirs \ {d}

\* main, lines 274-279: collect the targets.
MainStart ==
    /\ pc = "main"
    /\ targets' = collect_python_files(fs, cwd, args_path)
    /\ IF targets' = <<>>
       THEN /\ output' = output
                   \o (IF IsFile(fs, cwd, args_path) \/ IsDir(fs, cwd, args_path)
                       THEN <<>> ELSE <<ErrorLine(args_path)>>)
                   \o <<NoFilesLine>>
            /\ pc' = "exit"
       ELSE /\ output' = output
            /\ pc' = "for_targets"
    /\ all_results' = <<>>
    /\ t' = 1
    /\ UNCHANGED <<gvars, mutants, args_path, fs, tmpdirs, project, unreadable, cwd,
                   original, m, results, tmpdir, saved_cwd, passed, exc, created, run_log>>

\* main, lines 281-283, and mutate_file_and_test, lines 223-228: announce the
\* target, read it and generate its mutants.  A text that does not parse
\* makes ast.parse raise SyntaxError, which nothing catches.
MutateFile ==
    /\ pc = "for_targets"
    /\ t <= Len(targets)
    /\ output' = Append(output, MutatingLine(targets[t]))
    /\ original' = fs[Resolve(cwd, targets[t])].source
    /\ IF original'.valid
       THEN /\ mutants' = generate_mutants_from_source(original')
            /\ pc' = "for_mutants"
            /\ exc' = exc
       ELSE /\ mutants' = mutants
            /\ pc' = "crashed"
            /\ exc' = "SyntaxError"
    /\ results' = <<>>
    /\ m' = 1
    /\ UNCHANGED <<gvars, args_path, fs, tmpdirs, project, unreadable, cwd, targets, t,
                   all_results, tmpdir, saved_cwd, passed, created, run_log>>

\* line 230: with tempfile.TemporaryDirectory() as tmpdir
EnterSandbox ==
    /\ pc = "for_mutants"
    /\ m <= Len(mutants)
    /\ created' = created + 1
    /\ tmpdir' = Append(TmpRoot, TmpName(created'))
    /\ tmpdirs' = tmpdirs \cup {tmpdir'}
    /\ pc' = "copy"
    /\ UNCHANGED <<gvars, mutants, args_path, fs, project, unreadable, cwd, targets, t,
                   all_results, original, m, results, saved_cwd, passed, exc, output,
                   run_log>>

\* line 231: copy_project_to(tmpdir)
CopyProject ==
    /\ pc = "copy"
    /\ fs' = copy_project_to(fs, cwd, tmpdir, unreadable)
    /\ output' = output
          \o [k \in 1..Len(FailedItems(fs, cwd, unreadable)) |->
                  WarningLine(FailedItems(fs, cwd, unreadable)[k])]
    /\ pc' = "write"
    /\ UNCHANGED <<gvars, mutants, args_path, tmpdirs, project, unreadable, cwd, targets,
                   t, all_results, original, m, results, tmpdir, saved_cwd, passed, exc,
                   created, run_log>>

\* The file that lines 232-236 write.
target_path == Join(tmpdir, targets[t])

\* lines 232-236: write the mutated source over the target in the copy.
WriteMutant ==
    /\ pc = "write"
    /\ fs' = [p \in DOMAIN fs \cup {Resolve(cwd, target_path)} |->
                 IF p = Resolve(cwd, target_path) THEN CodeOf(mutants[m].code) ELSE fs[p]]
    /\ pc' = "chdir"
    /\ UNCHANGED <<gvars, mutants, args_path, tmpdirs, project, unreadable, cwd, targets,
                   t, all_results, original, m, results, tmpdir, saved_cwd, passed, exc,
                   created, output, run_log>>

\* lines 234-236 when the operating system refuses the write (OSError).
WriteFails ==
    /\ pc = "write"
    /\ exc' = "WriteError"
    /\ pc' = "unwind"
    /\ UNCHANGED <<gvars, mutants, args_path, fs, tmpdirs, project, unreadable, cwd,
                   targets, t, all_results, original, m, results, tmpdir, saved_cwd,
                   passed, created, output, run_log>>

\* lines 238-240: cwd = os.getcwd(); os.chdir(tmpdir)
ChdirIn ==
    /\ pc = "chdir"
    /\ saved_cwd' = cwd
    /\ cwd' = tmpdir
    /\ pc' = "pytest"
    /\ UNCHANGED <<gvars, mutants, args_path, fs, tmpdirs, project, unreadable, targets,
                   t, all_results, original, m, results, tmpdir, passed, exc, created,
                   output, run_log>>

\* line 241: passed = run_pytest_in_cwd(timeout=10).  A test command that
\* cannot be launched raises an OSError that run_pytest_in_cwd does not catch.
RunPytest ==
    /\ pc = "pytest"
    /\ \E outcome \in Outcomes :
         /\ run_log' = Append(run_log, [t |-> t, m |-> m, outcome |-> outcome])
         /\ IF outcome = "launch_error"
            THEN passed' = passed /\ exc' = "LaunchError"
            ELSE passed' = run_pytest_in_cwd(outcome) /\ exc' = exc
    /\ pc' = "finally"
    /\ UNCHANGED <<gvars, mutants, args_path, fs, tmpdirs, project, unreadable, cwd,
                   targets, t, all_results, original, m, results, tmpdir, saved_cwd,
                   created, output>>

\* The working directory after the call of run_pytest_in_cwd if os.chdir(cwd)
\* followed the call without a try/finally: an exception would skip it.
ChdirBackUnlessRaised(saved, current, e) == IF e = "none" THEN saved ELSE current

\* lines 239-243: the finally clause runs os.chdir(cwd) however the try
\* block was left, with or without an exception e.
ChdirBack(saved, current, e) == saved

\* lines 242-243: finally: os.chdir(cwd)
Finally ==
    /\ pc = "finally"
    /\ cwd' = ChdirBack(saved_cwd, cwd, exc)
    /\ pc' = IF exc = "none" THEN "record" ELSE "unwind"
    /\ UNCHANGED <<gvars, mutants, args_path, fs, tmpdirs, project, unreadable, targets,
                   t, all_results, original, m, results, tmpdir, saved_cwd, passed, exc,
                   created, output, run_log>>

\* line 245: results.append({"mutation": desc, "killed": not passed})
Record ==
    /\ pc = "record"
    /\ results' = Append(results, [mutation |-> mutants[m].desc, killed |-> ~passed])
    /\ pc' = "leave"
    /\ UNCHANGED <<gvars, mutants, args_path, fs, tmpdirs, project, unreadable, cwd,
                   targets, t, all_results, original, m, tmpdir, saved_cwd, passed, exc,
                   created, output, run_log>>

\* The end of the with-block: the sandbox is removed, on to the next mutant.
LeaveSandbox ==
    /\ pc = "leave"
    /\ tmpdirs' = ExitTemporaryDirectory(tmpdirs, tmpdir)
    /\ fs' = IF tmpdir \in tmpdirs' THEN fs ELSE RmTree(fs, tmpdir)
    /\ m' = m + 1
    /\ pc' = "for_mutants"
    /\ UNCHANGED <<gvars, mutants, args_path, project, unreadable, cwd, targets, t,
                   all_results, original, results, tmpdir, saved_cwd, passed, exc,
                   created, output, run_log>>

\* An exception leaves the with-block: the sandbox is removed and the
\* exception goes on through mutate_file_and_test and main, which do not
\* catch it: the process ends with a traceback.
Unwind ==
    /\ pc = "unwind"
    /\ tmpdirs' = ExitTemporaryDirectory(tmpdirs, tmpdir)
    /\ fs' = IF tmpdir \in tmpdirs' THEN fs ELSE RmTree(fs, tmpdir)
    /\ pc' = "crashed"
    /\ UNCHANGED <<gvars, mutants, args_path, project, unreadable, cwd, targets, t,
                   all_results, original, m, results, tmpdir, saved_cwd, passed, exc,
                   created, output, run_log>>

\* line 246 and main, lines 285-294: the results of the file come back and
\* are printed; a file without results is reported as having no sites and
\* is left out of all_results.
ReturnResults ==
    /\ pc = "for_mutants"
    /\ m > Len(mutants)
    /\ IF results = <<>>
       THEN /\ output' = Append(output, NoSitesLine)
            /\ all_results' = all_results
       ELSE /\ output' = output \o ReportLines(results)
            /\ all_results' = Append(all_results, [file |-> targets[t], results |-> results])
    /\ t' = t + 1
    /\ pc' = "for_targets"
    /\ UNCHANGED <<gvars, mutants, args_path, fs, tmpdirs, project, unreadable, cwd,
                   targets, original, m, results, tmpdir, saved_cwd, passed, exc,
                   created, run_log>>

\* main, lines 297-308: the summary.
Summary ==
    /\ pc = "for_targets"
    /\ t > Len(targets)
    /\ output' = Append(output, SummaryLine) \o SummaryFrom(all_results, 1, 0, 0)
    /\ pc' = "exit"
    /\ UNCHANGED <<gvars, mutants, args_path, fs, tmpdirs, project, unreadable, cwd,
                   targets, t, all_results, original, m, results, tmpdir, saved_cwd,
                   passed, exc, created, run_log>>

Next ==
    \/ MainStart \/ MutateFile \/ EnterSandbox \/ CopyProject \/ WriteMutant
    \/ WriteFails \/ ChdirIn \/ RunPytest \/ Finally \/ Record \/ LeaveSandbox
    \/ Unwind \/ ReturnResults \/ Summary

Spec == Init /\ [][Next]_vars

(***************************************************************************)
(* Properties of the generator (checked under SpecGen).                    *)
(***************************************************************************)
RECURSIVE NodesOf(_)
RECURSIVE NodesOfKids(_, _)
\* Every node of a tree, the node itself first.
NodesOf(node) == <<node>> \o NodesOfKids(node, 1)
NodesOfKids(node, k) ==
    IF k > Len(node.kids) THEN <<>> ELSE NodesOf(node.kids[k]) \o NodesOfKids(node, k + 1)

SelectKind(ss, k) == SelectSeq(ss, LAMBDA x : x.kind = k)

Original == Parse(source_code)

Collected == gpc \in {"loop", "returned"}

AddSubNodes ==
    SelectSeq(NodesOf(Original), LAMBDA n : n.type = "BinOp" /\ n.ops[1] \in {"Add", "Sub"})

\* C1: the BinOp sites are exactly those of the addition and subtraction
\* nodes, one per node in visiting order, each replacing addition by
\* subtraction or subtraction by addition; and the only mutant of
\* "x = a + b" is "x = a - b".
C1_BinOpSitesSwapAddSub ==
    /\ Collected =>
         LET bs == SelectKind(sites, "BinOp")
         IN /\ Len(bs) = Len(AddSubNodes)
            /\ \A k \in 1..Len(bs) :
                 /\ k <= Len(AddSubNodes)
                 /\ bs[k].lineno = AddSubNodes[k].lineno
                 /\ bs[k].col_offset = AddSubNodes[k].col_offset
                 /\ bs[k].orig = AddSubNodes[k].ops[1]
                 /\ bs[k].target = (IF bs[k].orig = "Add" THEN "Sub" ELSE "Add")
    /\ (gpc = "returned" /\ source_code = ScenarioB) =>
         /\ Len(mutants) = 1
         /\ mutants[1].desc.orig = "Add" /\ mutants[1].desc.target = "Sub"
         /\ mutants[1].code = <<"x", "=", "a", "-", "b">>

\* The iterations whose applier changed its copy of the tree.
TransformedIterations == {k \in 1..Len(applied_log) : applied_log[k].tree # Original}

\* C2: when the function returns, there is one mutant for every site whose
\* application transformed the tree copy, whatever the kind of the site.
C2_MutantPerTransformedSite ==
    gpc = "returned" => Len(mutants) = Cardinality(TransformedIterations)

\* C3: no two sites of the same kind have the same line, column and
\* operator index.
C3_SitesDistinct ==
    Collected =>
        \A j, k \in 1..Len(sites) :
            (/\ j # k
             /\ sites[j].kind = sites[k].kind
             /\ sites[j].lineno = sites[k].lineno
             /\ sites[j].col_offset = sites[k].col_offset) =>
                sites[j].op_index # sites[k].op_index

RECURSIVE DiffCount(_, _)
RECURSIVE DiffCountKids(_, _, _)
\* The number of operators and literal values at which two trees differ
\* (the trees have the same nodes otherwise; 100 when they do not).
DiffCount(n1, n2) ==
    IF \/ n1.type # n2.type \/ Len(n1.kids) # Len(n2.kids) \/ Len(n1.ops) # Len(n2.ops)
       \/ n1.lineno # n2.lineno \/ n1.col_offset # n2.col_offset
    THEN 100
    ELSE Cardinality({k \in 1..Len(n1.ops) : n1.ops[k] # n2.ops[k]})
         + (IF n1.value # n2.value THEN 1 ELSE 0)
         + DiffCountKids(n1, n2, 1)
DiffCountKids(n1, n2, k) ==
    IF k > Len(n1.kids) THEN 0
    ELSE DiffCount(n1.kids[k], n2.kids[k]) + DiffCountKids(n1, n2, k + 1)

\* C4: the tree every application returns differs from the original tree at
\* no more than one operator or literal, at exactly one when a mutant is
\* emitted for it, and the tree the applications start from stays the original.
C4_OneChangePerMutant ==
    /\ Collected => root = Original
    /\ \A k \in 1..Len(applied_log) :
         /\ DiffCount(Original, applied_log[k].tree) <= 1
         /\ applied_log[k].applied => DiffCount(Original, applied_log[k].tree) = 1

\* Two sites of one tree were applied in turn, each giving its own mutant.
C4_Witness ==
    /\ gpc = "returned"
    /\ Len(applied_log) >= 2
    /\ applied_log[1].applied /\ applied_log[2].applied
    /\ applied_log[1].tree # applied_log[2].tree
    /\ Len(mutants) >= 2

(***************************************************************************)
(* Properties of the campaign (checked under Spec).                        *)
(***************************************************************************)
Terminated == pc \in {"exit", "crashed"}

\* The program is inside the with-block of a mutant.
InSandbox == pc \in {"copy", "write", "chdir", "pytest", "finally", "record", "leave", "unwind"}

Printed(l) == \E j \in 1..Len(output) : output[j] = l

\* The sandbox of the k-th temporary directory created.
SandboxDir(k) == Append(TmpRoot, TmpName(k))

\* C5: the mutated text is written only below the sandbox of its mutant and
\* no file that existed when the tool started is ever changed; so, once the
\* mutant is written, the sandbox holds the project's files as they were,
\* but for the target.
C5_MutantWrittenOnlyInSandbox ==
    /\ \A p \in DOMAIN project : p \in DOMAIN fs /\ fs[p] = project[p]
    /\ \A p \in DOMAIN fs : fs[p].kind = "code" => \E d \in tmpdirs : Below(d, p)
    /\ pc = "chdir" =>
         /\ Below(tmpdir, Resolve(cwd, target_path))
         /\ fs[Resolve(cwd, target_path)] = CodeOf(mutants[m].code)
         /\ \A p \in FilesBelow(fs, tmpdir) :
              p # Resolve(cwd, target_path) =>
                 fs[p] = project[ProjectRoot \o SubSeq(p, Len(tmpdir) + 1, Len(p))]

\* C6: at most one sandbox exists at any time, it exists only while its
\* mutant is evaluated, and nothing of any sandbox is left once the
\* evaluation is over, however it ended, nor when the campaign has ended.
C6_SandboxAlwaysRemoved ==
    /\ Cardinality(tmpdirs) <= 1
    /\ InSandbox => tmpdirs = {tmpdir}
    /\ ~InSandbox =>
         /\ tmpdirs = {}
         /\ \A k \in 1..created : FilesBelow(fs, SandboxDir(k)) = {}
    /\ \A k \in 1..created : SandboxDir(k) # tmpdir => FilesBelow(fs, SandboxDir(k)) = {}

\* The campaign ended by an error in the second evaluation and no sandbox is left.
C6_Witness ==
    /\ pc = "crashed"
    /\ exc \in {"LaunchError", "WriteError"}
    /\ created = 2
    /\ tmpdirs = {}
    /\ FilesBelow(fs, SandboxDir(1)) \cup FilesBelow(fs, SandboxDir(2)) = {}

\* The target whose results the variable results holds.
ResultsTarget == IF pc \in {"for_targets", "exit"} THEN t - 1 ELSE t

\* The outcome of the test run of mutant k of target f.
OutcomeOf(f, k) ==
    LET j == CHOOSE j \in 1..Len(run_log) : run_log[j].t = f /\ run_log[j].m = k
    IN run_log[j].outcome

\* C7: a recorded verdict is killed exactly when the test run ended with a
\* nonzero exit code or ran into the timeout, and survived exactly when it
\* ended with exit code zero.
C7_KilledIffFailedOrTimedOut ==
    \A k \in 1..Len(results) :
        /\ \E j \in 1..Len(run_log) : run_log[j].t = ResultsTarget /\ run_log[j].m = k
        /\ results[k].killed <=> OutcomeOf(ResultsTarget, k) \in {"exit_nonzero", "timeout"}
        /\ ~results[k].killed <=> OutcomeOf(ResultsTarget, k) = "exit_zero"

\* A test run that hung was recorded and printed as killed.
C7_Witness ==
    /\ pc = "for_targets"
    /\ \E k \in 1..Len(results) :
         /\ OutcomeOf(ResultsTarget, k) = "timeout"
         /\ results[k].killed
         /\ Printed(VerdictLine(results[k]))

\* C8: when the campaign has ended, every mutant whose test command could
\* not be launched has a killed verdict among the results, and the campaign
\* ended with the summary.
C8_LaunchFailureIsKilled ==
    Terminated =>
        \A j \in 1..Len(run_log) :
            run_log[j].outcome = "launch_error" =>
                /\ pc = "exit"
                /\ Printed(SummaryLine)
                /\ \E a \in 1..Len(all_results) :
                     /\ all_results[a].file = targets[run_log[j].t]
                     /\ run_log[j].m <= Len(all_results[a].results)
                     /\ all_results[a].results[run_log[j].m].killed

\* C9: a campaign in which nothing but parsing went wrong ends with every
\* target announced, every target that parses processed to its last mutant,
\* and the summary printed.
C9_InvalidFileOnlySkipped ==
    (Terminated /\ exc \in {"none", "SyntaxError"} /\ targets # <<>>) =>
        /\ \A k \in 1..Len(targets) : Printed(MutatingLine(targets[k]))
        /\ Printed(SummaryLine)
        /\ pc = "exit"

\* The verdict lines printed since the last "=== Mutating" line.
VerdictsPrintedForFile ==
    LET marks == {j \in 1..Len(output) : output[j].line = "mutating"}
        last == IF marks = {} THEN 0 ELSE CHOOSE j \in marks : \A k \in marks : k <= j
    IN Cardinality({j \in (last + 1)..Len(output) : output[j].line = "verdict"})

\* C10 as claimed: while a mutant of a file is evaluated, the verdicts of
\* all the file's earlier mutants have been printed.
C10_VerdictsStreamed ==
    pc \in {"copy", "write", "chdir", "pytest", "finally", "record"} =>
        VerdictsPrintedForFile = Len(results)

\* C10, amended: no verdict of a file is printed while the file's mutants are
\* evaluated; when the last one has been evaluated the verdicts are printed
\* together, one line per mutant in catalog order, before the next file (or
\* the summary) is begun.
C10_VerdictsBatchedPerFile ==
    /\ (InSandbox \/ pc = "for_mutants") => VerdictsPrintedForFile = 0
    /\ \A k \in 1..Len(results) : results[k].mutation = mutants[k].desc
    /\ (pc = "for_targets" /\ t > 1) =>
         /\ Len(results) = Len(mutants)
         /\ VerdictsPrintedForFile = Len(results)
         /\ Len(output) >= Len(results)
         /\ \A k \in 1..Len(results) :
              output[Len(output) - Len(results) + k] = VerdictLine(results[k])

\* The two verdicts of a file with two mutants, one killed and one survived,
\* have been printed after both evaluations.
C10_Witness ==
    /\ pc = "for_targets"
    /\ Len(results) = 2
    /\ results[1].killed /\ ~results[2].killed
    /\ results[1].mutation # results[2].mutation
    /\ output[Len(output) - 1] = VerdictLine(results[1])
    /\ output[Len(output)] = VerdictLine(results[2])

\* The sites of a source for which the applier sets applied, in catalog order.
AppliedSites(src) ==
    LET tree == Parse(src)
    IN SelectSeq(CollectSites(tree), LAMBDA s : ApplySite(tree, s).applied)

\* The file just processed has come back to main.
FileCompleted == pc = "for_targets" /\ t > 1

\* C11: when the processing of a file is complete, there is exactly one
\* verdict, from exactly one test run, for every site the applier reported
\* as applied, in catalog order, and none for any other site.
C11_VerdictPerAppliedSite ==
    FileCompleted =>
        /\ Len(results) = Len(AppliedSites(original))
        /\ \A k \in 1..Len(results) :
             /\ k <= Len(AppliedSites(original))
             /\ results[k].mutation.kind = AppliedSites(original)[k].kind
             /\ results[k].mutation.lineno = AppliedSites(original)[k].lineno
             /\ results[k].mutation.col_offset = AppliedSites(original)[k].col_offset
             /\ results[k].mutation.orig = AppliedSites(original)[k].orig
             /\ results[k].mutation.target = AppliedSites(original)[k].target
             /\ Cardinality({j \in 1..Len(run_log) :
                               run_log[j].t = t - 1 /\ run_log[j].m = k}) = 1

\* A file with two sites, one of them not applied, has come back with one verdict.
C11_Witness ==
    /\ FileCompleted
    /\ Len(CollectSites(Parse(original))) = 2
    /\ Len(AppliedSites(original)) = 1
    /\ Len(results) = 1

\* The text of target k as it was when the tool started.
TargetSource(k) == project[Resolve(ProjectRoot, targets[k])].source

\* The number of applied sites of target k, and how many of its test runs
\* ended with a nonzero exit code or in the timeout.
TargetTotal(k) == Len(AppliedSites(TargetSource(k)))
TargetKilled(k) ==
    Cardinality({j \in 1..Len(run_log) :
                    run_log[j].t = k /\ run_log[j].outcome \in {"exit_nonzero", "timeout"}})

\* The place of the "=== Summary ===" line in the output.
SummaryAt == CHOOSE j \in 1..Len(output) : output[j] = SummaryLine

\* C12 as claimed: the summary has one line for every target, a target
\* without mutants as 0/0, and then the Overall line.
C12_SummaryLinePerTarget ==
    (pc = "exit" /\ targets # <<>>) =>
        /\ Printed(SummaryLine)
        /\ Len(output) = SummaryAt + Len(targets) + 1
        /\ \A k \in 1..Len(targets) :
             output[SummaryAt + k] = FileLine(targets[k], TargetKilled(k), TargetTotal(k))
        /\ output[Len(output)].line = "overall"

RECURSIVE SumOver(_, _)
\* The sum of f[k] over the members k of a finite set.
SumOver(f, S) ==
    IF S = {} THEN 0 ELSE LET x == CHOOSE y \in S : TRUE IN f[x] + SumOver(f, S \ {x})

\* The targets that have a verdict.
TargetsWithVerdicts == {k \in 1..Len(targets) : TargetTotal(k) > 0}

\* C12, amended: the summary has one line, in target order, for every
\* target that has at least one verdict, and none for a target without
\* verdicts; the Overall line holds the sums of the lines' numbers.
C12_SummaryLinePerTargetWithVerdicts ==
    (pc = "exit" /\ targets # <<>>) =>
        /\ Printed(SummaryLine)
        /\ Len(output) = SummaryAt + Cardinality(TargetsWithVerdicts) + 1
        /\ \A k \in TargetsWithVerdicts :
             output[SummaryAt + Cardinality({j \in TargetsWithVerdicts : j <= k})]
                 = FileLine(targets[k], TargetKilled(k), TargetTotal(k))
        /\ output[Len(output)] =
               OverallLine(SumOver([k \in 1..Len(targets) |-> TargetKilled(k)], TargetsWithVerdicts),
                           SumOver([k \in 1..Len(targets) |-> TargetTotal(k)], TargetsWithVerdicts))

\* A campaign over a file without verdicts and a file with a killed and a
\* survived mutant has printed its summary.
C12_Witness ==
    /\ pc = "exit"
    /\ Len(targets) = 2
    /\ Cardinality(TargetsWithVerdicts) = 1
    /\ \E k \in TargetsWithVerdicts : TargetTotal(k) = 2 /\ TargetKilled(k) = 1
    /\ output[Len(output)] = OverallLine(1, 2)

(***************************************************************************)
(* Further properties of the generator (SpecGen).                          *)
(***************************************************************************)
SwappedCmpOps == {"Eq", "NotEq", "Lt", "Gt"}

Opposite(op) ==
    CASE op = "Eq" -> "NotEq" [] op = "NotEq" -> "Eq" [] op = "Lt" -> "Gt" [] op = "Gt" -> "Lt"

RECURSIVE SwappableOperators(_, _, _)
\* For the comparison nodes among nodes[n..], in order, and each of their
\* operators from position idx on that is ==, !=, < or >: the site expected.
SwappableOperators(nodes, n, idx) ==
    IF n > Len(nodes) THEN <<>>
    ELSE IF nodes[n].type # "Compare" \/ idx >= Len(nodes[n].ops)
    THEN SwappableOperators(nodes, n + 1, 0)
    ELSE (IF nodes[n].ops[idx + 1] \in SwappedCmpOps
          THEN <<[kind |-> "Compare", lineno |-> nodes[n].lineno,
                  col_offset |-> nodes[n].col_offset, op_index |-> idx,
                  orig |-> nodes[n].ops[idx + 1],
                  target |-> Opposite(nodes[n].ops[idx + 1])]>>
          ELSE <<>>) \o SwappableOperators(nodes, n, idx + 1)

\* C13: the Compare sites are exactly one per ==, !=, < or > operator of
\* every comparison, in order, with the operator's position in its chain as
\* op_index and its opposite as replacement, and none for another operator;
\* each such site is applied; and the == site of "if a == b: return True"
\* renders "if a != b: return True".
C13_CompareSitePerSwappableOperator ==
    /\ Collected => SelectKind(sites, "Compare") = SwappableOperators(NodesOf(Original), 1, 0)
    /\ \A k \in 1..Len(applied_log) :
         applied_log[k].site.kind = "Compare" => applied_log[k].applied
    /\ (gpc = "returned" /\ source_code = ScenarioA) =>
         /\ Len(mutants) >= 1
         /\ mutants[1].desc = [kind |-> "Compare", lineno |-> 1, col_offset |-> 3,
                               orig |-> "Eq", target |-> "NotEq"]
         /\ mutants[1].code = <<"if", "a", "!=", "b", ":", "return", "True">>

\* A chain whose first operator has no site and whose second has one, applied.
C13_Witness ==
    /\ gpc = "returned"
    /\ \E n \in 1..Len(NodesOf(Original)) :
         /\ NodesOf(Original)[n].type = "Compare"
         /\ Len(NodesOf(Original)[n].ops) = 2
         /\ NodesOf(Original)[n].ops[1] = "LtE"
    /\ Len(sites) = 1
    /\ sites[1].op_index = 1
    /\ Len(mutants) = 1

(***************************************************************************)
(* Further properties of the campaign (Spec).                              *)
(***************************************************************************)
MetadataAndCacheNames == {".git", "__pycache__", ".pytest_cache"}

\* The part of path p below directory d.
RelativeTo(d, p) == SubSeq(p, Len(d) + 1, Len(p))

\* C14: once copy_project_to has populated the sandbox, no path in it has a
\* component named .git, __pycache__ or .pytest_cache, at any depth, and every
\* other readable file of the project is present in it.
C14_SandboxHasNoMetadataOrCaches ==
    pc = "write" =>
        /\ \A p \in FilesBelow(fs, tmpdir) :
             \A k \in 1..Len(RelativeTo(tmpdir, p)) :
                 RelativeTo(tmpdir, p)[k] \notin MetadataAndCacheNames
        /\ \A p \in FilesBelow(fs, cwd) :
             ((\A k \in 1..Len(RelativeTo(cwd, p)) :
                   RelativeTo(cwd, p)[k] \notin MetadataAndCacheNames)
              /\ p \notin unreadable)
             => tmpdir \o RelativeTo(cwd, p) \in DOMAIN fs

\* The number of sites a node emits by itself when the collector visits it.
OwnSiteCount(node) ==
    CASE node.type = "BinOp" -> IF node.ops[1] \in ArithOps THEN 1 ELSE 0
      [] node.type = "Compare" ->
           Cardinality({k \in 1..Len(node.ops) : node.ops[k] \in SwappedCmpOps})
      [] node.type = "Constant" -> IF node.value \in {"True", "False"} THEN 1 ELSE 0
      [] OTHER -> 0

RECURSIVE EmittingNodes(_, _)
\* For each site of the catalog, in catalog order, the position (in visiting
\* order) of the node that emitted it.
EmittingNodes(nodes, n) ==
    IF n > Len(nodes) THEN <<>>
    ELSE [j \in 1..OwnSiteCount(nodes[n]) |-> n] \o EmittingNodes(nodes, n + 1)

\* The positions of the nodes whose operators or value differ from the original's.
ChangedNodes(tree) ==
    {n \in 1..Len(NodesOf(Original)) :
        \/ NodesOf(tree)[n].ops # NodesOf(Original)[n].ops
        \/ NodesOf(tree)[n].value # NodesOf(Original)[n].value}

\* C15: applying the k-th site of the catalog changes the node that emitted
\* the k-th site and no other, and the trees of two different applied sites
\* of one source differ.
C15_AppliedSiteChangesItsOwnNode ==
    /\ \A k \in 1..Len(applied_log) :
         ChangedNodes(applied_log[k].tree) = {EmittingNodes(NodesOf(Original), 1)[k]}
    /\ \A j, k \in 1..Len(applied_log) :
         (j # k /\ applied_log[j].applied /\ applied_log[k].applied)
            => applied_log[j].tree # applied_log[k].tree

\* C16: "No mutation sites found." is the report of a target file only when
\* the catalog of that file is empty.
C16_NoSitesLineOnlyForEmptyCatalog ==
    (FileCompleted /\ output[Len(output)] = NoSitesLine)
        => CollectSites(Parse(original)) = <<>>

\* C17: outside the try block of a mutant evaluation the working directory
\* is the project directory the campaign started in, however the test run
\* ended (passed, failed, timed out, or raised); inside it the working
\* directory is the live sandbox of that evaluation; so every sandbox is
\* copied from the project directory and the working directory is never a
\* removed sandbox.
C17_WorkingDirectoryRestored ==
    /\ pc \notin {"pytest", "finally"} => cwd = ProjectRoot
    /\ pc \in {"pytest", "finally"} =>
         /\ cwd = tmpdir
         /\ tmpdir \in tmpdirs
         /\ saved_cwd = ProjectRoot
    /\ Below(TmpRoot, cwd) => cwd \in tmpdirs

\* The second evaluation of a file raised after the first timed out, and
\* the working directory is back in the project.
C17_Witness ==
    /\ pc = "unwind"
    /\ exc = "LaunchError"
    /\ Len(run_log) = 2
    /\ run_log[1].outcome = "timeout"
    /\ run_log[2].outcome = "launch_error"
    /\ cwd = ProjectRoot
    /\ saved_cwd = ProjectRoot

====
